---- MODULE Spec2Model ----
(***************************************************************************)
(* A model of tempconvert (src/tempconvert/main.go): an HTTP server with   *)
(* two routes, "/" (helloHandler) and "/celsius" (celsiusHandler).          *)
(*                                                                         *)
(* float64 is modelled by a binary floating-point format of the same shape *)
(* (sign, MantBits significant bits, gradual underflow, +-Inf, NaN, round  *)
(* to nearest even) and a smaller range.  A finite value is sign * n units *)
(* of 2^-FracBits, where n has at most MantBits significant bits and is at *)
(* most MaxUnits.  Strings are sequences of one-character strings.          *)
(***************************************************************************)
EXTENDS Integers, Sequences, FiniteSets, TLC

\* ----------------------------------------------------------------- bounds
\* significant bits of the floating-point format (float64: 53)
MantBits == 8
\* the smallest positive value is 2^-FracBits (float64: 2^-1074)
FracBits == 2
\* the largest finite value is (2^MantBits - 1) * 2^TopShift units
TopShift == 18

\* --------------------------------------------------------- integer helpers
RECURSIVE Pow(_, _)
Pow(b, k) == IF k <= 0 THEN 1 ELSE b * Pow(b, k - 1)

RECURSIVE BitLen(_)
BitLen(n) == IF n <= 0 THEN 0 ELSE 1 + BitLen(n \div 2)

\* the number of factors two of n, at most cap
RECURSIVE TwoFactors(_, _)
TwoFactors(n, cap) ==
    IF cap <= 0 \/ n <= 0 \/ n % 2 = 1 THEN 0 ELSE 1 + TwoFactors(n \div 2, cap - 1)

Max2(a, b) == IF a >= b THEN a ELSE b

Min2(a, b) == IF a <= b THEN a ELSE b

\* ------------------------------------------------------------- the format
MaxUnits == (Pow(2, MantBits) - 1) * Pow(2, TopShift)

\* beyond this an exact magnitude is kept only as "too large"
Huge == 2 * MaxUnits + 1

Fin(neg, n) == [cls |-> "fin", neg |-> neg, n |-> n]

Inf(neg) == [cls |-> "inf", neg |-> neg, n |-> 0]

NaN == [cls |-> "nan", neg |-> FALSE, n |-> 0]

IsNaN(x) == x.cls = "nan"

IsInf(x) == x.cls = "inf"

IsFin(x) == x.cls = "fin"

\* n units is a value of the format
Representable(n) ==
    /\ n >= 0
    /\ n <= MaxUnits
    /\ n % Pow(2, Max2(0, BitLen(n) - MantBits)) = 0

\* round to nearest, ties to even: 1 when m + r/d rounds up
RoundUp(m, r, d) == IF r > d - r \/ (r = d - r /\ m % 2 = 1) THEN 1 ELSE 0

RoundBy(num, d, step) == ((num \div d) + RoundUp(num \div d, num % d, d)) * step

RoundAt(num, den, s) == RoundBy(num, den * Pow(2, s), Pow(2, s))

\* num/den units (num >= 0, den > 0) rounded to the nearest value of the
\* format with an unbounded exponent, ties to even
RoundRat(num, den) == RoundAt(num, den, Max2(0, BitLen(num \div den) - MantBits))

\* beyond the range a rounded value is an infinity (IEEE 754 overflow)
OrInf(neg, n) == IF n > MaxUnits THEN Inf(neg) ELSE Fin(neg, n)

\* the float nearest to sign * num/den units
FloatOf(neg, num, den) == OrInf(neg, RoundRat(num, den))

\* an integer constant of the source as a float
FConst(k) == Fin(k < 0, (IF k < 0 THEN -k ELSE k) * Pow(2, FracBits))

Signed(x) == IF x.neg THEN -x.n ELSE x.n

\* the float of the exact difference d of two finite floats
SubExact(a, b, d) ==
    IF d = 0 THEN Fin(a.neg /\ ~b.neg /\ a.n = 0, 0)
    ELSE FloatOf(d < 0, IF d < 0 THEN -d ELSE d, 1)

\* float64 subtraction a - b
FSub(a, b) ==
    IF IsNaN(a) \/ IsNaN(b) THEN NaN
    ELSE IF IsInf(a) /\ IsInf(b) THEN (IF a.neg = b.neg THEN NaN ELSE a)
    ELSE IF IsInf(a) THEN a
    ELSE IF IsInf(b) THEN Inf(~b.neg)
    ELSE SubExact(a, b, Signed(a) - Signed(b))

\* the product of two finite floats, b holding g factors two
MulExact(a, b, g) ==
    FloatOf(a.neg # b.neg, a.n * (b.n \div Pow(2, g)), Pow(2, FracBits - g))

\* float64 multiplication a * b
FMul(a, b) ==
    IF IsNaN(a) \/ IsNaN(b) THEN NaN
    ELSE IF IsInf(a) \/ IsInf(b)
         THEN (IF (IsFin(a) /\ a.n = 0) \/ (IsFin(b) /\ b.n = 0)
               THEN NaN ELSE Inf(a.neg # b.neg))
    ELSE MulExact(a, b, TwoFactors(b.n, FracBits))

\* the quotient of two finite floats, b # 0 holding g factors two
DivExact(a, b, g) ==
    FloatOf(a.neg # b.neg, a.n * Pow(2, FracBits - g), b.n \div Pow(2, g))

\* float64 division a / b
FDiv(a, b) ==
    IF IsNaN(a) \/ IsNaN(b) THEN NaN
    ELSE IF IsInf(a) THEN (IF IsInf(b) THEN NaN ELSE Inf(a.neg # b.neg))
    ELSE IF IsInf(b) THEN Fin(a.neg # b.neg, 0)
    ELSE IF b.n = 0 THEN (IF a.n = 0 THEN NaN ELSE Inf(a.neg # b.neg))
    ELSE DivExact(a, b, TwoFactors(b.n, FracBits))

\* ------------------------------------------------------------- characters
DecDigits == <<"0", "1", "2", "3", "4", "5", "6", "7", "8", "9">>

HexLetters == <<"a", "b", "c", "d", "e", "f">>

UpperCase == <<"A", "B", "C", "D", "E", "F", "I", "N", "P", "T", "X", "Y">>

LowerCase == <<"a", "b", "c", "d", "e", "f", "i", "n", "p", "t", "x", "y">>

IndexOf(seq, c) == IF \E i \in DOMAIN seq : seq[i] = c
                   THEN CHOOSE i \in DOMAIN seq : seq[i] = c ELSE 0

LowerAt(c, i) == IF i > 0 THEN LowerCase[i] ELSE c

\* strconv's lower(c): c | ('x' - 'X')
Lower(c) == LowerAt(c, IndexOf(UpperCase, c))

IsDigit(c) == IndexOf(DecDigits, c) > 0

IsHexLetter(c) == IndexOf(HexLetters, Lower(c)) > 0

DigitVal(c) == IF IsDigit(c) THEN IndexOf(DecDigits, c) - 1
               ELSE 9 + IndexOf(HexLetters, Lower(c))

Drop(s, k) == SubSeq(s, k + 1, Len(s))

\* ------------------------------------------------------ strconv.ParseFloat
\* strconv's commonPrefixLenIgnoreCase(s, prefix): prefix is lower-case
RECURSIVE commonPrefixLenIgnoreCase(_, _)
commonPrefixLenIgnoreCase(s, prefix) ==
    IF s = <<>> \/ prefix = <<>> \/ Lower(Head(s)) # Head(prefix) THEN 0
    ELSE 1 + commonPrefixLenIgnoreCase(Tail(s), Tail(prefix))

NotSpecial == [ok |-> FALSE, n |-> 0, f |-> NaN]

\* special: anything longer than "inf" that is not "infinity" counts as "inf"
InfLen(k) == IF 3 < k /\ k < 8 THEN 3 ELSE k

\* special, after its sign: n characters of "infinity" match
SpecialInf(c, nsign, n) ==
    IF n \in {3, 8} THEN [ok |-> TRUE, n |-> nsign + n, f |-> Inf(c = "-")]
    ELSE NotSpecial

\* strconv's special(s): "inf", "infinity" (signed or not) and "nan", any
\* case.  n is the number of characters consumed.
special(s) ==
    IF s = <<>> THEN NotSpecial
    ELSE IF Head(s) \in {"+", "-"}
        THEN SpecialInf(Head(s), 1, InfLen(commonPrefixLenIgnoreCase(Tail(s),
                 <<"i", "n", "f", "i", "n", "i", "t", "y">>)))
    ELSE IF Head(s) \in {"i", "I"}
        THEN SpecialInf(Head(s), 0, InfLen(commonPrefixLenIgnoreCase(s,
                 <<"i", "n", "f", "i", "n", "i", "t", "y">>)))
    ELSE IF Head(s) \in {"n", "N"} /\ commonPrefixLenIgnoreCase(s, <<"n", "a", "n">>) = 3
        THEN [ok |-> TRUE, n |-> 3, f |-> NaN]
    ELSE NotSpecial

\* readFloat's digit loop from position i: the digits as an integer in the
\* given base, the number of digits after the point, and where it stopped
RECURSIVE ScanMantissa(_, _, _, _)
ScanMantissa(s, i, base, st) ==
    IF i > Len(s) THEN [st EXCEPT !.i = i]
    ELSE IF s[i] = "."
         THEN (IF st.sawdot THEN [st EXCEPT !.i = i]
               ELSE ScanMantissa(s, i + 1, base, [st EXCEPT !.sawdot = TRUE]))
    ELSE IF IsDigit(s[i]) \/ (base = 16 /\ IsHexLetter(s[i]))
         THEN ScanMantissa(s, i + 1, base,
                  [st EXCEPT !.mant = st.mant * base + DigitVal(s[i]),
                             !.fd = IF st.sawdot THEN st.fd + 1 ELSE st.fd,
                             !.sawdigits = TRUE])
    ELSE [st EXCEPT !.i = i]

\* the digits of an exponent from position i (readFloat stops adding at 10000)
RECURSIVE ScanExponent(_, _, _)
ScanExponent(s, i, e) ==
    IF i > Len(s) \/ ~IsDigit(s[i]) THEN [i |-> i, e |-> e]
    ELSE ScanExponent(s, i + 1, IF e < 10000 THEN e * 10 + DigitVal(s[i]) ELSE e)

NotFloat == [ok |-> FALSE, neg |-> FALSE, hex |-> FALSE, mant |-> 0, exp |-> 0, n |-> 0]

\* readFloat's result: the value read is mant * (10 or 2)^exp, where a
\* digit after the point counts -1 (decimal) or -4 (hexadecimal)
ReadOk(neg, hex, m, e, n) ==
    [ok |-> TRUE, neg |-> neg, hex |-> hex, mant |-> m.mant,
     exp |-> (IF hex THEN -4 * m.fd ELSE -m.fd) + e, n |-> n]

\* readFloat after the exponent's digits x
readExpDone(neg, hex, m, esign, x) == ReadOk(neg, hex, m, esign * x.e, x.i - 1)

\* readFloat at the exponent character: an optional sign at j - 1 and at
\* least one digit at j
readExp(s, neg, hex, m, j) ==
    IF j > Len(s) \/ ~IsDigit(s[j]) THEN NotFloat
    ELSE readExpDone(neg, hex, m, IF s[j - 1] = "-" THEN -1 ELSE 1, ScanExponent(s, j, 0))

\* readFloat after the digits m: an exponent (e, or p which a hexadecimal
\* mantissa requires) or the end
readTail(s, neg, hex, m) ==
    IF ~m.sawdigits THEN NotFloat
    ELSE IF m.i <= Len(s) /\ Lower(s[m.i]) = (IF hex THEN "p" ELSE "e")
        THEN readExp(s, neg, hex, m,
                 IF m.i + 1 <= Len(s) /\ s[m.i + 1] \in {"+", "-"} THEN m.i + 2 ELSE m.i + 1)
    ELSE IF hex THEN NotFloat
    ELSE ReadOk(neg, hex, m, 0, m.i - 1)

\* readFloat after the sign, the digits starting at i0 or after a 0x there
readDigits(s, neg, hex, i0) ==
    readTail(s, neg, hex,
        ScanMantissa(s, IF hex THEN i0 + 2 ELSE i0, IF hex THEN 16 ELSE 10,
            [mant |-> 0, fd |-> 0, sawdot |-> FALSE, sawdigits |-> FALSE, i |-> 0]))

readSigned(s, neg, i0) ==
    readDigits(s, neg, i0 + 1 < Len(s) /\ s[i0] = "0" /\ Lower(s[i0 + 1]) = "x", i0)

\* strconv's readFloat(s): sign, optional 0x, digits with an optional point,
\* optional exponent; n characters are consumed
readFloat(s) ==
    IF s = <<>> THEN NotFloat
    ELSE readSigned(s, s[1] = "-", IF s[1] \in {"+", "-"} THEN 2 ELSE 1)

\* n * b^k, kept only as Huge once it is beyond every finite value
RECURSIVE ScaleUp(_, _, _)
ScaleUp(n, b, k) ==
    IF k <= 0 \/ n = 0 THEN Min2(n, Huge)
    ELSE IF n > Huge \div b THEN Huge
    ELSE ScaleUp(n * b, b, k - 1)

\* b^exp for exp < 0 is kept exactly down to this exponent; below it
\* mant * b^exp is less than half a unit for every mantissa of nine digits
MinExp(b) == IF b = 2 THEN -24 ELSE -9

\* the float nearest to sign * mant * b^exp, which is what atof64 returns
FloatOfScaled(neg, mant, b, exp) ==
    FloatOf(neg,
        IF exp >= 0 THEN ScaleUp(mant * Pow(2, FracBits), b, exp)
        ELSE IF exp < MinExp(b) THEN 0
        ELSE mant * Pow(2, FracBits),
        IF exp >= 0 \/ exp < MinExp(b) THEN 1 ELSE Pow(b, -exp))

\* atof64 after readFloat: beyond the range the result is an infinity and
\* ErrRange
parseValue(f) == IF IsInf(f) THEN [f |-> f, err |-> "range"] ELSE [f |-> f, err |-> ""]

\* ParseFloat wants all of s consumed
parseRead(s, r) ==
    IF ~r.ok \/ r.n # Len(s) THEN [f |-> Fin(FALSE, 0), err |-> "syntax"]
    ELSE parseValue(FloatOfScaled(r.neg, r.mant, IF r.hex THEN 2 ELSE 10, r.exp))

parseSpecial(s, sp) ==
    IF sp.ok
        THEN (IF sp.n = Len(s) THEN [f |-> sp.f, err |-> ""]
              ELSE [f |-> Fin(FALSE, 0), err |-> "syntax"])
    ELSE parseRead(s, readFloat(s))

\* strconv.ParseFloat(s, 64): err is "" (nil), "syntax" (ErrSyntax) or
\* "range" (ErrRange, with f the infinity)
ParseFloat(s) == parseSpecial(s, special(s))

\* ----------------------------------------------------- strconv.FormatFloat
\* the decimal digits of n > 0, most significant first
RECURSIVE DigitsOf(_)
DigitsOf(n) == IF n < 10 THEN <<DecDigits[n + 1]>>
               ELSE Append(DigitsOf(n \div 10), DecDigits[(n % 10) + 1])

RECURSIVE StripZeros(_)
StripZeros(d) == IF d > 0 /\ d % 10 = 0 THEN StripZeros(d \div 10) ELSE d

\* dp with 10^(dp-1) <= num/den < 10^dp, for num > 0
RECURSIVE DecimalPoint(_, _)
DecimalPoint(num, den) ==
    IF num >= den THEN 1 + DecimalPoint(num, den * 10)
    ELSE IF num * 10 >= den THEN 0
    ELSE DecimalPoint(num * 10, den) - 1

\* the decimal d * 10^k reads back as n units
ReadsBack(d, k, n) == d > 0 /\ FloatOfScaled(FALSE, d, 10, k) = Fin(FALSE, n)

\* of the decimals lo * 10^k and (lo + 1) * 10^k around lo + r/dn, the one
\* that reads back, the nearer one when both do (the even one when both
\* are as near)
Nearer(k, lo, r, dn, okLo, okHi) ==
    [ok |-> okLo \/ okHi, k |-> k,
     d  |-> IF okLo /\ okHi
            THEN (IF r < dn - r \/ (r = dn - r /\ lo % 2 = 0) THEN lo ELSE lo + 1)
            ELSE IF okLo THEN lo ELSE lo + 1]

CandidateOf(n, k, num, dn) ==
    Nearer(k, num \div dn, num % dn, dn,
           ReadsBack(num \div dn, k, n), ReadsBack((num \div dn) + 1, k, n))

CandidateAt(n, k) ==
    CandidateOf(n, k, IF k >= 0 THEN n ELSE n * Pow(10, -k),
                IF k >= 0 THEN Pow(2, FracBits) * Pow(10, k) ELSE Pow(2, FracBits))

\* the candidate with nd digits for n units
Candidate(n, nd) == CandidateAt(n, DecimalPoint(n, Pow(2, FracBits)) - nd)

\* strconv's shortest decimal for n > 0 units (ftoa with prec -1): the
\* fewest digits that read back as the same float
RECURSIVE Shortest(_, _)
ShortestOf(n, nd, c) ==
    IF c.ok THEN [d |-> DigitsOf(StripZeros(c.d)), dp |-> Len(DigitsOf(c.d)) + c.k]
    ELSE Shortest(n, nd + 1)

Shortest(n, nd) == ShortestOf(n, nd, Candidate(n, nd))

\* strconv's digs for a finite float: digits d (nd of them), point at dp
Digs(x) == IF x.n = 0 THEN [d |-> <<>>, dp |-> 0] ELSE Shortest(x.n, 1)

Zeros(k) == [i \in 1 .. Max2(k, 0) |-> "0"]

Sign(neg) == IF neg THEN <<"-">> ELSE <<>>

\* strconv's fmtF: %f with prec digits after the point
fmtF(neg, digs, prec) ==
    Sign(neg)
        \o (IF digs.dp > 0
            THEN SubSeq(digs.d, 1, Min2(Len(digs.d), digs.dp)) \o Zeros(digs.dp - Len(digs.d))
            ELSE <<"0">>)
        \o (IF prec > 0
            THEN <<".">> \o [i \in 1 .. prec |->
                     IF 1 <= digs.dp + i /\ digs.dp + i <= Len(digs.d)
                     THEN digs.d[digs.dp + i] ELSE "0"]
            ELSE <<>>)

\* fmtE's exponent: a sign and at least two digits
fmtExp(exp) ==
    <<"e", IF exp < 0 THEN "-" ELSE "+">>
        \o (IF exp > -10 /\ exp < 10 THEN <<"0">> ELSE <<>>)
        \o DigitsOf(IF exp < 0 THEN -exp ELSE exp)

\* strconv's fmtE: %e with prec digits after the point
fmtE(neg, digs, prec) ==
    Sign(neg)
        \o (IF Len(digs.d) > 0 THEN <<digs.d[1]>> ELSE <<"0">>)
        \o (IF prec > 0
            THEN <<".">> \o [i \in 1 .. prec |->
                     IF i + 1 <= Len(digs.d) THEN digs.d[i + 1] ELSE "0"]
            ELSE <<>>)
        \o fmtExp(IF Len(digs.d) = 0 THEN 0 ELSE digs.dp - 1)

\* %f with the shortest digits
fmtShortestF(neg, digs) == fmtF(neg, digs, Max2(Len(digs.d) - digs.dp, 0))

\* %g with the shortest digits: %e when the exponent is below -4 or at
\* least 6 (eprec for the shortest form)
fmtShortestG(neg, digs) ==
    IF digs.dp - 1 < -4 \/ digs.dp - 1 >= 6 THEN fmtE(neg, digs, Len(digs.d) - 1)
    ELSE fmtShortestF(neg, digs)

\* strconv.FormatFloat(x, 'f', -1, 64) for a finite x
FormatFloatF(x) == fmtShortestF(x.neg, Digs(x))

\* strconv.FormatFloat(x, 'g', -1, 64)
FormatFloat(x) ==
    IF IsNaN(x) THEN <<"N", "a", "N">>
    ELSE IF IsInf(x) THEN <<IF x.neg THEN "-" ELSE "+", "I", "n", "f">>
    ELSE fmtShortestG(x.neg, Digs(x))

\* ------------------------------------------------------------------ texts
HelloWorld ==
    <<"H", "e", "l", "l", "o", " ", "W", "o", "r", "l", "d", "!">>

MissingParam ==
    <<"m", "i", "s", "s", "i", "n", "g", " ", "f", "a", "h", "r", "e", "n",
      "h", "e", "i", "t", " ", "U", "R", "L", " ", "q", "u", "e", "r", "y",
      " ", "p", "a", "r", "a", "m">>

InvalidValue ==
    <<"i", "n", "v", "a", "l", "i", "d", " ", "f", "a", "h", "r", "e", "n",
      "h", "e", "i", "t", " ", "v", "a", "l", "u", "e">>

UnsupportedValue ==
    <<"j", "s", "o", "n", ":", " ", "u", "n", "s", "u", "p", "p", "o", "r",
      "t", "e", "d", " ", "v", "a", "l", "u", "e", ":", " ">>

CelsiusKey ==
    <<"\"", "c", "e", "l", "s", "i", "u", "s", "\"">>

\* a byte of a binary body, by its value
ByteNames ==
    <<"00", "01", "02", "03", "04", "05", "06", "07", "08", "09", "0a", "0b", "0c", "0d", "0e", "0f",
      "10", "11", "12", "13", "14", "15", "16", "17", "18", "19", "1a", "1b", "1c", "1d", "1e", "1f",
      "20", "21", "22", "23", "24", "25", "26", "27", "28", "29", "2a", "2b", "2c", "2d", "2e", "2f",
      "30", "31", "32", "33", "34", "35", "36", "37", "38", "39", "3a", "3b", "3c", "3d", "3e", "3f",
      "40", "41", "42", "43", "44", "45", "46", "47", "48", "49", "4a", "4b", "4c", "4d", "4e", "4f",
      "50", "51", "52", "53", "54", "55", "56", "57", "58", "59", "5a", "5b", "5c", "5d", "5e", "5f",
      "60", "61", "62", "63", "64", "65", "66", "67", "68", "69", "6a", "6b", "6c", "6d", "6e", "6f",
      "70", "71", "72", "73", "74", "75", "76", "77", "78", "79", "7a", "7b", "7c", "7d", "7e", "7f",
      "80", "81", "82", "83", "84", "85", "86", "87", "88", "89", "8a", "8b", "8c", "8d", "8e", "8f",
      "90", "91", "92", "93", "94", "95", "96", "97", "98", "99", "9a", "9b", "9c", "9d", "9e", "9f",
      "a0", "a1", "a2", "a3", "a4", "a5", "a6", "a7", "a8", "a9", "aa", "ab", "ac", "ad", "ae", "af",
      "b0", "b1", "b2", "b3", "b4", "b5", "b6", "b7", "b8", "b9", "ba", "bb", "bc", "bd", "be", "bf",
      "c0", "c1", "c2", "c3", "c4", "c5", "c6", "c7", "c8", "c9", "ca", "cb", "cc", "cd", "ce", "cf",
      "d0", "d1", "d2", "d3", "d4", "d5", "d6", "d7", "d8", "d9", "da", "db", "dc", "dd", "de", "df",
      "e0", "e1", "e2", "e3", "e4", "e5", "e6", "e7", "e8", "e9", "ea", "eb", "ec", "ed", "ee", "ef",
      "f0", "f1", "f2", "f3", "f4", "f5", "f6", "f7", "f8", "f9", "fa", "fb", "fc", "fd", "fe", "ff">>

Byte(b) == ByteNames[b + 1]

ByteVal(c) == IndexOf(ByteNames, c) - 1

\* ---------------------------------------------------- the reply's encodings
\* The contract (src/README.md, contract.proto) is
\*     message TempConvertReply { double celsius = 1; }
\* for which protoc-gen-go generates the field
\*     Celsius float64 `protobuf:"fixed64,1,opt,name=celsius,proto3" json:"celsius,omitempty"`

\* width of the exponent field, and the number of bytes of a float's bits
\* (float64: 11 and 8)
ExpBits == BitLen(TopShift + 2)

FloatBytes == (MantBits + ExpBits + 7) \div 8

\* the bits of a float whose exponent field is ef and fraction frac
PackBits(neg, ef, frac) ==
    (IF neg THEN Pow(2, ExpBits + MantBits - 1) ELSE 0) + ef * Pow(2, MantBits - 1) + frac

\* the bits of a finite float, n = m * 2^s with m of at most MantBits bits
FiniteBits(x, s) ==
    IF x.n < Pow(2, MantBits - 1) THEN PackBits(x.neg, 0, x.n)
    ELSE PackBits(x.neg, s + 1, (x.n \div Pow(2, s)) - Pow(2, MantBits - 1))

\* math.Float64bits: sign, exponent field, fraction (math.NaN() is the
\* quiet NaN whose fraction ends in 1)
Float64bits(x) ==
    IF IsNaN(x) THEN PackBits(FALSE, TopShift + 2, Pow(2, MantBits - 2) + 1)
    ELSE IF IsInf(x) THEN PackBits(x.neg, TopShift + 2, 0)
    ELSE FiniteBits(x, Max2(0, BitLen(x.n) - MantBits))

UnpackBits(neg, ef, frac) ==
    IF ef = TopShift + 2 THEN (IF frac = 0 THEN Inf(neg) ELSE NaN)
    ELSE IF ef > TopShift + 2 THEN NaN
    ELSE IF ef = 0 THEN Fin(neg, frac)
    ELSE Fin(neg, (Pow(2, MantBits - 1) + frac) * Pow(2, ef - 1))

\* math.Float64frombits
Float64frombits(b) ==
    UnpackBits((b \div Pow(2, ExpBits + MantBits - 1)) % 2 = 1,
               (b \div Pow(2, MantBits - 1)) % Pow(2, ExpBits),
               b % Pow(2, MantBits - 1))

\* the bits as a little-endian fixed-width integer (protowire.AppendFixed64)
LittleEndian(b) == [i \in 1 .. FloatBytes |-> Byte((b \div Pow(256, i - 1)) % 256)]

RECURSIVE FromLittleEndian(_)
FromLittleEndian(bs) ==
    IF bs = <<>> THEN 0 ELSE ByteVal(Head(bs)) + 256 * FromLittleEndian(Tail(bs))

\* proto.Marshal(reply): field 1 with wire type fixed64 is the tag byte
\* 0x09 and the bits; a proto3 field holding +0 is not written.  It
\* returns no error for this message.
protoMarshal(reply) ==
    IF IsFin(reply) /\ reply.n = 0 /\ ~reply.neg THEN <<>>
    ELSE <<Byte(9)>> \o LittleEndian(Float64bits(reply))

\* proto.Unmarshal into a TempConvertReply
protoUnmarshal(b) ==
    IF b = <<>> THEN [ok |-> TRUE, celsius |-> Fin(FALSE, 0)]
    ELSE IF Len(b) = 1 + FloatBytes /\ Head(b) = Byte(9)
             /\ \A i \in DOMAIN b : IndexOf(ByteNames, b[i]) > 0
         THEN [ok |-> TRUE, celsius |-> Float64frombits(FromLittleEndian(Tail(b)))]
    ELSE [ok |-> FALSE, celsius |-> Fin(FALSE, 0)]

\* json.Marshal(reply): NaN and the infinities are an UnsupportedValueError
\* whose text names the value; a zero is left out (omitempty); otherwise
\* the number is FormatFloat(v, 'f', -1, 64) (every finite value of the
\* format lies in [1e-6, 1e21), where encoding/json uses 'f')
jsonMarshal(reply) ==
    IF ~IsFin(reply)
        THEN [body |-> <<>>, failed |-> TRUE, msg |-> UnsupportedValue \o FormatFloat(reply)]
    ELSE IF reply.n = 0 THEN [body |-> <<"{", "}">>, failed |-> FALSE, msg |-> <<>>]
    ELSE [body |-> <<"{">> \o CelsiusKey \o <<":">> \o FormatFloatF(reply) \o <<"}">>,
          failed |-> FALSE, msg |-> <<>>]

jsonNumber(pf) ==
    IF pf.err = "" THEN [ok |-> TRUE, celsius |-> pf.f]
    ELSE [ok |-> FALSE, celsius |-> Fin(FALSE, 0)]

\* json.Unmarshal into a TempConvertReply: a missing key leaves the zero
\* value, a number literal is converted by strconv.ParseFloat
jsonUnmarshal(b) ==
    IF b = <<"{", "}">> THEN [ok |-> TRUE, celsius |-> Fin(FALSE, 0)]
    ELSE IF Len(b) > Len(CelsiusKey) + 3
             /\ SubSeq(b, 1, Len(CelsiusKey) + 2) = <<"{">> \o CelsiusKey \o <<":">>
             /\ b[Len(b)] = "}"
         THEN jsonNumber(ParseFloat(SubSeq(b, Len(CelsiusKey) + 3, Len(b) - 1)))
    ELSE [ok |-> FALSE, celsius |-> Fin(FALSE, 0)]

\* -------------------------------------------------------------- net/http
\* A request is its path, its parsed query (url.Values: the key=value pairs
\* in order) and the values of its accept header lines.  A response is what
\* the ResponseWriter holds: the status (0 until the header is written),
\* two header fields ("" when unset), the body, and the number of
\* WriteHeader calls made after the header was written.
ContentType == "Content-Type"

NoSniff == "X-Content-Type-Options"

TextPlainUTF8 == "text/plain; charset=utf-8"

NewResponse == [status |-> 0, ctype |-> "", nosniff |-> "", body |-> <<>>, superfluous |-> 0]

\* url.Values[key]: the values of the pairs with that key, in order
RECURSIVE QueryValues(_, _)
QueryValues(query, key) ==
    IF query = <<>> THEN <<>>
    ELSE (IF Head(query).k = key THEN <<Head(query).v>> ELSE <<>>)
             \o QueryValues(Tail(query), key)

\* Header.Get("accept"): the first value, "" when there is none
HeaderGet(values) == IF values = <<>> THEN "" ELSE Head(values)

\* Header().Set("Content-Type", v)
SetContentType(w, v) == [w EXCEPT !.ctype = v]

\* ResponseWriter.WriteHeader(code): the first call sets the status
WriteHeader(w, code) ==
    IF w.status # 0 THEN [w EXCEPT !.superfluous = w.superfluous + 1]
    ELSE [w EXCEPT !.status = code]

\* http.DetectContentType for a body of printable text
DetectContentType(b) == TextPlainUTF8

\* ResponseWriter.Write(b): writes the header with status 200 if it is not
\* written yet, sniffs the Content-Type if none is set, appends b
Write(w, b) ==
    IF w.status # 0 THEN [w EXCEPT !.body = w.body \o b]
    ELSE [w EXCEPT !.status = 200,
                   !.ctype = IF w.ctype = "" THEN DetectContentType(b) ELSE w.ctype,
                   !.body = w.body \o b]

\* an error reply that writes the status and the message and leaves the
\* headers as they are
ErrorKeepsType(w, msg, code) == Write(WriteHeader(w, code), msg \o <<"\n">>)

\* http.Error(w, msg, code): a plain-text reply of msg and a newline
Error(w, msg, code) ==
    Write(WriteHeader([w EXCEPT !.ctype = TextPlainUTF8, !.nosniff = "nosniff"], code),
          msg \o <<"\n">>)

\* --------------------------------------------------------------- main.go
\* GetMux: the patterns and their handlers
GetMux == [hello |-> "/", celsius |-> "/celsius"]

\* a mux whose two handlers were registered the other way round
HandlerSwapped(routes, path) ==
    IF path = routes.celsius THEN "helloHandler" ELSE "celsiusHandler"

\* ServeMux's match: "/celsius" names one path, "/" every other one
Handler(routes, path) == IF path = routes.celsius THEN "celsiusHandler" ELSE "helloHandler"

\* helloHandler
helloHandler(w) == Write(w, HelloWorld)

\* a resolver that divides before it multiplies: (r.Fahrenheit - 32) / 9 * 5
celsiusResolverDivFirst(f) == FMul(FDiv(FSub(f, FConst(32)), FConst(9)), FConst(5))

\* celsiusResolver: (r.Fahrenheit - 32) * 5 / 9
celsiusResolver(f) == FDiv(FMul(FSub(f, FConst(32)), FConst(5)), FConst(9))

\* celsiusMarshaller: sets the Content-Type and returns the body or an error
\* a marshaller that takes every accept value naming JSON for application/json
celsiusMarshallerLoose(w, accept, reply) ==
    IF accept = "application/protobuf"
        THEN [w |-> SetContentType(w, accept), body |-> protoMarshal(reply),
              failed |-> FALSE, msg |-> <<>>]
    ELSE IF accept \in {"application/json", "Application/JSON", "application/json; charset=utf-8"}
        THEN [w |-> SetContentType(w, accept), body |-> jsonMarshal(reply).body,
              failed |-> jsonMarshal(reply).failed, msg |-> jsonMarshal(reply).msg]
    ELSE [w |-> SetContentType(SetContentType(w, accept), "text/plain"),
          body |-> FormatFloat(reply), failed |-> FALSE, msg |-> <<>>]

Marshalled(w, js) == [w |-> w, body |-> js.body, failed |-> js.failed, msg |-> js.msg]

celsiusMarshaller(w, accept, reply) ==
    IF accept = "application/protobuf"
        THEN [w |-> SetContentType(w, accept), body |-> protoMarshal(reply),
              failed |-> FALSE, msg |-> <<>>]
    ELSE IF accept = "application/json"
        THEN Marshalled(SetContentType(w, accept), jsonMarshal(reply))
    ELSE [w |-> SetContentType(SetContentType(w, accept), "text/plain"),
          body |-> FormatFloat(reply), failed |-> FALSE, msg |-> <<>>]


\* ----------------------------------------------------------------- inputs
\* concurrent connections in SpecConc
MaxConns == 2
\* every string over Alphabet of at most MaxLen characters is a parameter value
MaxLen == 3

Alphabet == {"0", "1", "2", "e", "-", ".", "x", "p"}

Strings(k) == UNION {[1 .. m -> Alphabet] : m \in 0 .. k}

Samples ==
    { <<"3", "2">>, <<"2", "1", "2">>, <<"-", "4", "0">>, <<"9", "8", ".", "6">>,
      <<"1", "0", "8">>, <<"2", "0">>, <<"6", "8">>, <<"3", "3">>, <<"a", "b", "c">>,
      <<"0", "x", "1", "p", "4">>, <<"0", "X", "1", "P", "-", "1">>, <<"0", "x", "1">>,
      <<"i", "n", "f">>, <<"-", "I", "n", "f">>,
      <<"I", "n", "f", "i", "n", "i", "t", "y">>,
      <<"+", "i", "n", "f", "i", "n", "i", "t", "y">>, <<"i", "n", "f", "i">>,
      <<"N", "a", "N">>, <<"n", "a", "n">>, <<"-", "n", "a", "n">>, <<"1", "e", "6">>,
      <<"2", "e", "6">>, <<"-", "2", "e", "6">>, <<"1", "e", "7">>, <<"9", "e", "7">>,
      <<"1", "e", "9", "9">>, <<"1", "e", "-", "9", "9">>, <<"+", "4">>, <<" ", "4">>,
      <<"4", " ">>, <<"1", ",", "5">>, <<"1", ".", "5", ".", "2">>,
      <<"0", ".", "2", "5">> }

Values == Samples \cup Strings(MaxLen)

Few == {<<"3", "2">>, <<"a", "b", "c">>, <<>>}

Pair(k, v) == [k |-> k, v |-> v]

Queries ==
    {<<>>}
        \cup {<<Pair("fahrenheit", v)>> : v \in Samples}
        \cup {<<Pair(k, a), Pair("fahrenheit", b)>> : k \in {"fahrenheit", "celsius"}, a \in Few, b \in Few}
        \cup {<<Pair(k, a)>> : k \in {"celsius", "Fahrenheit"}, a \in Few}

Accepts ==
    {<<>>, <<"">>, <<"application/json">>, <<"application/protobuf">>, <<"text/plain">>,
     <<"Application/JSON">>, <<"application/json; charset=utf-8">>,
     <<"text/html", "application/json">>}

Request(path, query, accept) == [path |-> path, query |-> query, accept |-> accept]

Requests ==
    {Request("/celsius", q, a) : q \in Queries, a \in Accepts}
        \cup {Request("/celsius", <<Pair("fahrenheit", v)>>, a) :
                  v \in Values, a \in {<<>>, <<"application/json">>}}
        \cup {Request(p, <<Pair("fahrenheit", v)>>, a) :
                  p \in {"/", "/celsius/", "/hello"}, v \in Few, a \in Accepts}
        \cup {Request("/", <<>>, a) : a \in Accepts}

\* the requests served concurrently in SpecConc
ProbeRequests ==
    {Request("/", <<>>, <<>>),
     Request("/hello", <<Pair("fahrenheit", <<"3", "2">>)>>, <<"application/json">>),
     Request("/celsius", <<>>, <<"application/json">>),
     Request("/celsius", <<Pair("fahrenheit", <<"a", "b", "c">>)>>, <<"application/protobuf">>),
     Request("/celsius", <<Pair("fahrenheit", <<"2", "1", "2">>)>>, <<>>),
     Request("/celsius", <<Pair("fahrenheit", <<"2", "1", "2">>)>>, <<"application/json">>),
     Request("/celsius", <<Pair("fahrenheit", <<"3", "2">>)>>, <<"application/protobuf">>),
     Request("/celsius", <<Pair("fahrenheit", <<"i", "n", "f">>)>>, <<"application/json">>),
     Request("/celsius", <<Pair("fahrenheit", <<"2", "e", "6">>)>>, <<"text/html">>)}

\* ------------------------------------------------------------------ state
\* conns[i]: one connection's request and the position of its handler
\* mux: the routes GetMux registered
VARIABLES conns, mux

vars == <<conns, mux>>

Conns == 1 .. MaxConns

NoFloat == [cls |-> "none", neg |-> FALSE, n |-> 0]

IdleConn ==
    [pc |-> "idle", req |-> Request("", <<>>, <<>>), f |-> NoFloat, reply |-> NoFloat,
     body |-> <<>>, failed |-> FALSE, msg |-> <<>>, w |-> NewResponse, ran |-> <<>>]

\* a connection on which rq has arrived (the server calls mux.ServeHTTP)
Serving(rq) == [IdleConn EXCEPT !.pc = "serve", !.req = rq]

Ran(c, step) == [c EXCEPT !.ran = Append(c.ran, step)]

\* mux.ServeHTTP: dispatch to the handler of the path
serveHTTP(routes, c) ==
    [c EXCEPT !.pc = IF Handler(routes, c.req.path) = "celsiusHandler" THEN "query" ELSE "hello"]

\* helloHandler, main.go line 23
hello(c) == [Ran(c, "hello") EXCEPT !.w = helloHandler(c.w), !.pc = "done"]

\* a handler that reports the missing parameter and goes on (no return)
queryNoReturn(c) ==
    IF QueryValues(c.req.query, "fahrenheit") = <<>>
        THEN [Ran(c, "query") EXCEPT !.w = Error(c.w, MissingParam, 400), !.pc = "parse"]
    ELSE [Ran(c, "query") EXCEPT !.pc = "parse"]

\* celsiusHandler, main.go lines 27-31: the parameter must be present
query(c) ==
    IF QueryValues(c.req.query, "fahrenheit") = <<>>
        THEN [Ran(c, "query") EXCEPT !.w = Error(c.w, MissingParam, 400), !.pc = "done"]
    ELSE [Ran(c, "query") EXCEPT !.pc = "parse"]

\* celsiusHandler, main.go lines 32-36: its first value must parse
parsed(c, pf) ==
    IF pf.err # ""
        THEN [Ran(c, "parse") EXCEPT !.w = Error(c.w, InvalidValue, 400), !.pc = "done"]
    ELSE [Ran(c, "parse") EXCEPT !.f = pf.f, !.pc = "resolve"]

parse(c) == parsed(c, ParseFloat(QueryValues(c.req.query, "fahrenheit")[1]))

\* celsiusHandler, main.go line 37
resolve(c) == [Ran(c, "resolve") EXCEPT !.reply = celsiusResolver(c.f), !.pc = "marshal"]

\* celsiusHandler, main.go line 38
marshalled(c, m) ==
    [Ran(c, "marshal") EXCEPT !.w = m.w, !.body = m.body, !.failed = m.failed,
                               !.msg = m.msg, !.pc = "respond"]

marshal(c) == marshalled(c, celsiusMarshaller(c.w, HeaderGet(c.req.accept), c.reply))

\* a handler that reports a serialization failure as a client error
respondBadRequest(c) ==
    IF c.failed
        THEN [Ran(c, "error") EXCEPT !.w = Error(c.w, c.msg, 400), !.pc = "done"]
    ELSE [Ran(c, "write") EXCEPT !.w = Write(c.w, c.body), !.pc = "done"]

\* a handler that writes the body before it looks at the error
respondWriteFirst(c) ==
    IF c.failed
        THEN [Ran(c, "error") EXCEPT !.w = Error(Write(c.w, c.body), c.msg, 500),
                                     !.pc = "done"]
    ELSE [Ran(c, "write") EXCEPT !.w = Write(c.w, c.body), !.pc = "done"]

\* celsiusHandler, main.go lines 39-43
respond(c) ==
    IF c.failed
        THEN [Ran(c, "error") EXCEPT !.w = Error(c.w, c.msg, 500), !.pc = "done"]
    ELSE [Ran(c, "write") EXCEPT !.w = Write(c.w, c.body), !.pc = "done"]

\* ---------------------------------------------------------------- actions
Init == /\ conns = [i \in Conns |-> IdleConn]
        /\ mux = GetMux

Accept(i, rq) == /\ conns[i].pc = "idle"
                 /\ conns' = [conns EXCEPT ![i] = Serving(rq)]
                 /\ UNCHANGED mux

Route(i) == /\ conns[i].pc = "serve"
            /\ conns' = [conns EXCEPT ![i] = serveHTTP(mux, conns[i])]
            /\ UNCHANGED mux

Hello(i) == /\ conns[i].pc = "hello"
            /\ conns' = [conns EXCEPT ![i] = hello(conns[i])]
            /\ UNCHANGED mux

Query(i) == /\ conns[i].pc = "query"
            /\ conns' = [conns EXCEPT ![i] = query(conns[i])]
            /\ UNCHANGED mux

Parse(i) == /\ conns[i].pc = "parse"
            /\ conns' = [conns EXCEPT ![i] = parse(conns[i])]
            /\ UNCHANGED mux

Resolve(i) == /\ conns[i].pc = "resolve"
              /\ conns' = [conns EXCEPT ![i] = resolve(conns[i])]
              /\ UNCHANGED mux

\* a marshaller that sets the Content-Type on a header shared by all
\* connections
MarshalShared(i) ==
    /\ conns[i].pc = "marshal"
    /\ conns' = [j \in Conns |->
                    IF j = i THEN marshal(conns[i])
                    ELSE IF conns[j].pc \in {"idle", "done"} THEN conns[j]
                    ELSE [conns[j] EXCEPT !.w = SetContentType(conns[j].w,
                                                    HeaderGet(conns[i].req.accept))]]
    /\ UNCHANGED mux

Marshal(i) == /\ conns[i].pc = "marshal"
              /\ conns' = [conns EXCEPT ![i] = marshal(conns[i])]
              /\ UNCHANGED mux

Respond(i) == /\ conns[i].pc = "respond"
              /\ conns' = [conns EXCEPT ![i] = respond(conns[i])]
              /\ UNCHANGED mux

\* the response is sent and the connection takes the next request
Close(i) == /\ conns[i].pc = "done"
            /\ conns' = [conns EXCEPT ![i] = IdleConn]
            /\ UNCHANGED mux

Handle(i) ==
    \/ Route(i)
    \/ Hello(i)
    \/ Query(i)
    \/ Parse(i)
    \/ Resolve(i)
    \/ Marshal(i)
    \/ Respond(i)
    \/ Close(i)

\* one connection, every request of Requests
Next ==
    \/ \E rq \in Requests : Accept(1, rq)
    \/ Handle(1)

Spec == Init /\ [][Next]_vars

\* MaxConns connections served concurrently, the requests of ProbeRequests
NextConc ==
    \/ \E i \in Conns, rq \in ProbeRequests : Accept(i, rq)
    \/ \E i \in Conns : Handle(i)

SpecConc == Init /\ [][NextConc]_vars
\* ------------------------------------------------------------------ claims
HasParam(rq) == QueryValues(rq.query, "fahrenheit") # <<>>

Param(rq) == QueryValues(rq.query, "fahrenheit")[1]

Parses(rq) == HasParam(rq) /\ ParseFloat(Param(rq)).err = ""

\* a connection whose handler has returned from a request to /celsius
DoneCelsius(c) == c.pc = "done" /\ c.req.path = "/celsius"

Line(msg) == msg \o <<"\n">>

\* the body of the reply v in the format accept selects
Encoded(accept, v) ==
    IF accept = "application/json" THEN jsonMarshal(v).body
    ELSE IF accept = "application/protobuf" THEN protoMarshal(v)
    ELSE FormatFloat(v)

\* s is a decimal floating-point literal: sign, decimal digits with an
\* optional point, optional decimal exponent
IsBase10(s) ==
    /\ s # <<>>
    /\ \A i \in DOMAIN s : IsDigit(s[i]) \/ s[i] \in {"+", "-", ".", "e", "E"}
    /\ readFloat(s).ok
    /\ readFloat(s).n = Len(s)

RECURSIVE Contains(_, _)
\* part occurs in body
Contains(body, part) ==
    /\ Len(body) >= Len(part)
    /\ \/ SubSeq(body, 1, Len(part)) = part
       \/ Contains(Tail(body), part)

\* C1 as claimed: every request to /celsius whose fahrenheit parameter
\* parses as a float gets status 200 and the converted value in the
\* format the accept header selects, whatever the accept header
C1_ParsedFloatGets200 ==
    \A i \in Conns :
        DoneCelsius(conns[i]) /\ Parses(conns[i].req)
            => /\ conns[i].w.status = 200
               /\ conns[i].w.body = Encoded(HeaderGet(conns[i].req.accept),
                                            celsiusResolver(ParseFloat(Param(conns[i].req)).f))

\* C2: a request to /celsius without a fahrenheit key gets status 400 and
\* the plain-text message "missing fahrenheit URL query param"; the handler
\* returns after the check, so neither the conversion nor the
\* serialization runs
C2_MissingParam ==
    \A i \in Conns :
        (conns[i].req.path = "/celsius" /\ ~HasParam(conns[i].req)
            /\ conns[i].ran # <<>>)
            => /\ conns[i].pc = "done"
               /\ conns[i].ran = <<"query">>
               /\ conns[i].w.status = 400
               /\ conns[i].w.ctype = TextPlainUTF8
               /\ conns[i].w.body = Line(MissingParam)
               /\ conns[i].f = NoFloat
               /\ conns[i].reply = NoFloat
               /\ conns[i].body = <<>>

C2_Witness ==
    \E i \in Conns :
        /\ DoneCelsius(conns[i])
        /\ conns[i].req.query # <<>>
        /\ ~HasParam(conns[i].req)
        /\ conns[i].w.status = 400

\* C3 as claimed: a fahrenheit value that is not a base-10 floating-point
\* number gets status 400 and "invalid fahrenheit value"; only a base-10
\* floating-point number is accepted
C3_OnlyBase10Accepted ==
    \A i \in Conns :
        (DoneCelsius(conns[i]) /\ HasParam(conns[i].req)
            /\ ~IsBase10(Param(conns[i].req)))
            => /\ conns[i].w.status = 400
               /\ conns[i].w.body = Line(InvalidValue)

\* C4: the celsius of the reply is (f - 32) * 5 / 9 in float arithmetic,
\* the subtraction first, then the multiplication, then the division, and
\* nothing else rounds it: 32 gives 0, 212 gives 100, -40 gives -40, and a
\* finite result is within the three operations' rounding of the exact one
C4_Formula ==
    \A i \in Conns :
        conns[i].reply # NoFloat
            => /\ conns[i].f = ParseFloat(Param(conns[i].req)).f
               /\ conns[i].reply
                      = FDiv(FMul(FSub(conns[i].f, FConst(32)), FConst(5)), FConst(9))
               /\ conns[i].f = FConst(32) => conns[i].reply = Fin(FALSE, 0)
               /\ conns[i].f = FConst(212) => conns[i].reply = FConst(100)
               /\ conns[i].f = FConst(-40) => conns[i].reply = FConst(-40)
               /\ (IsFin(conns[i].f) /\ IsFin(conns[i].reply))
                      => LET d == Signed(conns[i].f) - Signed(FConst(32))
                             e == 9 * Signed(conns[i].reply) - 5 * d
                         IN  Pow(2, MantBits) * (IF e < 0 THEN -e ELSE e)
                                <= 20 * (IF d < 0 THEN -d ELSE d) + 9 * Pow(2, MantBits)
               /\ (IsFin(conns[i].f) /\ IsInf(conns[i].reply))
                      => 5 * (IF Signed(conns[i].f) < Signed(FConst(32))
                              THEN Signed(FConst(32)) - Signed(conns[i].f)
                              ELSE Signed(conns[i].f) - Signed(FConst(32))) > MaxUnits

C4_Witness ==
    \E i \in Conns :
        /\ conns[i].f = FConst(212)
        /\ conns[i].reply = FConst(100)
        /\ conns[i].pc = "done"
        /\ conns[i].w.body = <<"1", "0", "0">>

\* C5: the body of a 200 response of /celsius is fixed by the accept header
\* alone: JSON exactly for application/json, protobuf exactly for
\* application/protobuf, and for every other value or no header the
\* shortest decimal text of the celsius value; each decodes to the reply
C5_FormatByAccept ==
    \A i \in Conns :
        (DoneCelsius(conns[i]) /\ conns[i].w.status = 200)
            => LET a == HeaderGet(conns[i].req.accept)
                   v == conns[i].reply
                   b == conns[i].w.body
               IN  /\ v = celsiusResolver(ParseFloat(Param(conns[i].req)).f)
                   /\ a = "application/json"
                          => /\ b = jsonMarshal(v).body
                             /\ Head(b) = "{" /\ b[Len(b)] = "}"
                             /\ jsonUnmarshal(b) = [ok |-> TRUE, celsius |-> v]
                   /\ a = "application/protobuf"
                          => /\ b = protoMarshal(v)
                             /\ protoUnmarshal(b) = [ok |-> TRUE, celsius |-> v]
                   /\ a \notin {"application/json", "application/protobuf"}
                          => /\ b = FormatFloat(v)
                             /\ ParseFloat(b) = [f |-> v, err |-> ""]

C5_Witness ==
    \E i \in Conns :
        /\ DoneCelsius(conns[i]) /\ conns[i].w.status = 200
        /\ conns[i].req.accept = <<"application/json; charset=utf-8">>
        /\ conns[i].w.body = <<"1", "0", "0">>

\* C6: /celsius answers 200, 400 or 500: 400 exactly when the parameter is
\* missing or does not parse, 500 exactly when serializing the reply fails
C6_ErrorStatuses ==
    \A i \in Conns :
        DoneCelsius(conns[i])
            => /\ conns[i].w.status \in {200, 400, 500}
               /\ conns[i].w.status = 400 <=> ~Parses(conns[i].req)
               /\ conns[i].w.status = 500
                      <=> /\ Parses(conns[i].req)
                          /\ celsiusMarshaller(NewResponse, HeaderGet(conns[i].req.accept),
                                 celsiusResolver(ParseFloat(Param(conns[i].req)).f)).failed
               /\ conns[i].w.status = 500 <=> conns[i].failed
               /\ conns[i].failed
                      <=> /\ HeaderGet(conns[i].req.accept) = "application/json"
                          /\ conns[i].reply # NoFloat
                          /\ ~IsFin(conns[i].reply)

C6_Witness ==
    \E i \in Conns :
        /\ DoneCelsius(conns[i])
        /\ conns[i].w.status = 500
        /\ conns[i].failed
        /\ IsFin(conns[i].f)

\* C7: a request to the path "/" gets status 200 and the body
\* "Hello World!", whatever its query and its accept header
C7_Hello ==
    \A i \in Conns :
        (conns[i].pc = "done" /\ conns[i].req.path = "/")
            => /\ conns[i].w.status = 200
               /\ conns[i].w.body = HelloWorld
               /\ conns[i].ran = <<"hello">>

C7_Witness ==
    \E i \in Conns :
        /\ conns[i].pc = "done" /\ conns[i].req.path = "/"
        /\ HasParam(conns[i].req)
        /\ conns[i].req.accept = <<"application/json">>
        /\ conns[i].w.body = HelloWorld
\* one step of the handler serving c
Step(routes, c) ==
    CASE c.pc = "serve" -> serveHTTP(routes, c)
      [] c.pc = "hello" -> hello(c)
      [] c.pc = "query" -> query(c)
      [] c.pc = "parse" -> parse(c)
      [] c.pc = "resolve" -> resolve(c)
      [] c.pc = "marshal" -> marshal(c)
      [] c.pc = "respond" -> respond(c)
      [] OTHER -> c

RECURSIVE RunAlone(_)
\* c's handler run to its return with no other request in the server
RunAlone(c) == IF c.pc \in {"idle", "done"} THEN c ELSE RunAlone(Step(GetMux, c))

\* the request handled alone on a fresh server
ServeAlone(rq) == RunAlone(Serving(rq))

\* C8: requests are served independently: under any interleaving of the
\* handlers' steps each request, at every point of its handling, ends in
\* the response it gets when handled alone on a fresh server; a step
\* changes the state of its own request only, and the server state (the
\* mux) never changes
C8_Independent ==
    /\ [](/\ mux = GetMux
          /\ \A i \in Conns :
                 conns[i].pc # "idle"
                     => /\ RunAlone(conns[i]) = ServeAlone(conns[i].req)
                        /\ conns[i].pc = "done"
                               => conns[i].w = ServeAlone(conns[i].req).w)
    /\ [][/\ mux' = mux
          /\ \A i, j \in Conns :
                 (i # j /\ conns'[i] # conns[i]) => conns'[j] = conns[j]]_vars

C8_Witness ==
    \E i, j \in Conns :
        /\ i # j
        /\ conns[i].pc = "done" /\ conns[i].w.status = 500
        /\ conns[j].pc = "respond" /\ ~conns[j].failed
        /\ conns[j].req.accept = <<"application/protobuf">>
        /\ conns[j].w.ctype = "application/protobuf"

\* the same number, taking the two zeros for one
SameValue(a, b) == a = b \/ (IsFin(a) /\ IsFin(b) /\ a.n = 0 /\ b.n = 0)

\* C9 as claimed: every reply the endpoint makes can be encoded in each
\* structured format (JSON, protobuf), and decoding the encoding gives a
\* reply with the same celsius value
C9_RoundTrip ==
    \A i \in Conns :
        conns[i].reply # NoFloat
            => /\ protoUnmarshal(protoMarshal(conns[i].reply)).ok
               /\ SameValue(protoUnmarshal(protoMarshal(conns[i].reply)).celsius,
                            conns[i].reply)
               /\ ~jsonMarshal(conns[i].reply).failed
               /\ jsonUnmarshal(jsonMarshal(conns[i].reply).body).ok
               /\ SameValue(jsonUnmarshal(jsonMarshal(conns[i].reply).body).celsius,
                            conns[i].reply)

\* the four outcomes of /celsius, by the steps that ran
OutcomeMissing(c) ==
    /\ c.ran = <<"query">>
    /\ c.w.status = 400 /\ c.w.body = Line(MissingParam)

OutcomeInvalid(c) ==
    /\ c.ran = <<"query", "parse">>
    /\ c.w.status = 400 /\ c.w.body = Line(InvalidValue)

OutcomeFailure(c) ==
    /\ c.ran = <<"query", "parse", "resolve", "marshal", "error">>
    /\ c.w.status = 500 /\ c.w.body = Line(c.msg)

OutcomeSuccess(c) ==
    /\ c.ran = <<"query", "parse", "resolve", "marshal", "write">>
    /\ c.w.status = 200 /\ c.w.body = c.body

\* the outcome is decided in the order missing, invalid, failure, success;
\* nothing is written before it is decided and the status is written once
FixedOrder(c) ==
    /\ c.pc = "done"
           => /\ OutcomeMissing(c) <=> ~HasParam(c.req)
              /\ OutcomeInvalid(c) <=> (HasParam(c.req) /\ ~Parses(c.req))
              /\ OutcomeFailure(c) <=> (Parses(c.req) /\ c.failed)
              /\ OutcomeSuccess(c) <=> (Parses(c.req) /\ ~c.failed)
    /\ c.pc # "done" => (c.w.status = 0 /\ c.w.body = <<>>)
    /\ c.w.superfluous = 0

C11_ContentType ==
    \A i \in Conns :
        conns[i].req.path = "/celsius"
            => /\ (conns[i].pc = "done" /\ conns[i].w.status = 200)
                      => /\ HeaderGet(conns[i].req.accept)
                                \in {"application/json", "application/protobuf"}
                             => conns[i].w.ctype = HeaderGet(conns[i].req.accept)
                         /\ HeaderGet(conns[i].req.accept)
                                \notin {"application/json", "application/protobuf"}
                             => conns[i].w.ctype = "text/plain"
                         /\ conns[i].w.nosniff = ""
               /\ (conns[i].pc = "done" /\ conns[i].w.status \in {400, 500})
                      => /\ conns[i].w.ctype = TextPlainUTF8
                         /\ conns[i].w.nosniff = "nosniff"
                         /\ conns[i].w.body = Line(SubSeq(conns[i].w.body, 1,
                                                          Len(conns[i].w.body) - 1))
               /\ conns[i].pc = "done" => conns[i].w.status \in {200, 400, 500}
               /\ (conns[i].pc = "respond" /\ conns[i].failed)
                      => /\ conns[i].w.ctype = "application/json"
                         /\ conns[i].w.ctype = HeaderGet(conns[i].req.accept)
                         /\ conns[i].w.status = 0

C11_Witness ==
    \E i \in Conns :
        /\ DoneCelsius(conns[i])
        /\ conns[i].w.status = 500
        /\ conns[i].ran = <<"query", "parse", "resolve", "marshal", "error">>
        /\ conns[i].req.accept = <<"application/json">>
        /\ conns[i].w.ctype = TextPlainUTF8
====
